---- MODULE Spec2Model ----
(***************************************************************************)
(* Model of pyhspf.calibration.autocalibrator.AutoCalibrator: the          *)
(* coordinate-wise perturbation calibrator (autocalibrate, optimize,       *)
(* perturb, check_variables) and its serial / process-pool trial dispatch. *)
(*                                                                         *)
(* Units.  Parameter values and perturbations are integers counting 1e-4   *)
(* (1.0 is 10000), so that round(x, 3) is rounding to a multiple of 10.    *)
(* A perturbation scale s is carried as the integer 2*s (0.5 -> 1, 1 -> 2, *)
(* 2 -> 4).  Objective values are integers in the unit of the sentinel     *)
(* self.value = -10.                                                       *)
(***************************************************************************)
EXTENDS Integers, Sequences, FiniteSets, TLC

VARIABLES
    \* the constructor's arguments, kept in the object
    parameter_ranges, \* self.parameter_ranges: name -> <<min, max>>
    comid,           \* self.comid ("None" if not given)
    gageid,          \* self.gageid ("None" if not given)
    \* the caller's arguments of autocalibrate (fixed for a run)
    argVariables,    \* variables: the names, in dict order
    argValues,       \* variables: the starting values, in dict order
    argSchedule,     \* perturbations: the scales (as 2*scale)
    parallel,        \* parallel
    nprocessors,     \* nprocessors (0 stands for None)
    \* AutoCalibrator fields
    variables,       \* self.variables
    values,          \* self.values
    value,           \* self.value
    perturbations,   \* self.perturbations
    \* control state of autocalibrate / optimize / perturb
    pc,              \* position of the calling thread
    scaleIdx,        \* number of schedule entries consumed by the for loop
    current,         \* optimize: current
    sign,            \* "pos" | "neg": which perturb call of the pair
    simulations,     \* perturb: simulations
    status,          \* per simulation: pending | done | raised | hung
    arrived,         \* the results so far, [pos, obj], in order of arrival
    optimizations,   \* perturb: optimizations
    sensitivities,   \* perturb's return value
    \* the external world
    memo,            \* the simulation engine: objective of each vector run so far
    reported,        \* vectors printed by the failure handler
    warnings,        \* check_variables: number of warnings printed
    failure,         \* the exception that left autocalibrate ("none" if none)
    finalModel,      \* the model copied after the loop: the runs made of it, the
                     \* adjustments applied to it (<<>>: none), those applied when
                     \* it was run, and whether it was written to the output file
    \* run: the series of the postprocessor and the objective returned
    optimization,    \* self.optimization
    stimes,          \* times of the simulated daily flows
    sflows,          \* simulated daily flows
    otimes,          \* times of the observed daily flows
    oflows,          \* observed daily flows
    score,           \* what run returned, or the exception it raised
    \* history (bookkeeping for the properties, never read by the program)
    hist

ctorVars == <<parameter_ranges, gageid>>
runVars == <<stimes, sflows, otimes, oflows, score>>

vars == <<ctorVars, comid, runVars, optimization,
          argVariables, argValues, argSchedule, parallel, nprocessors,
          variables, values, value, perturbations, pc, scaleIdx, current,
          sign, simulations, status, arrived, optimizations, sensitivities,
          memo, reported, warnings, failure, finalModel, hist>>

-----------------------------------------------------------------------------
(* Bounds and constants *)

\* at most this many batches are dispatched in one run
MaxBatches == 4

\* multiprocessing.cpu_count() of the host
CpuCount == 2

\* self.value = -10
Sentinel == -10

\* objective values the simulation engine can return
ObjVals == {-11, 0, 1}

-----------------------------------------------------------------------------
(* Pure helpers *)

\* get_default, in 1e-4
get_default(v) ==
    CASE v = "LZSN"   -> 500
      [] v = "UZSN"   -> 500
      [] v = "LZETP"  -> 200
      [] v = "INFILT" -> 400
      [] v = "INTFW"  -> 100
      [] v = "IRC"    -> 200
      [] v = "AGWRC"  -> 50
      [] v = "DEEPFR" -> 100

\* the default of the constructor's argument parameter_ranges, in 1e-4
DefaultRanges ==
    [v \in {"IRC", "LZETP", "DEEPFR", "LZSN", "UZSN", "INFILT", "INTFW", "AGWRC"} |->
        CASE v = "IRC"    -> <<5000, 20000>>
          [] v = "LZETP"  -> <<2000, 14000>>
          [] v = "DEEPFR" -> <<0, 10000>>
          [] v = "LZSN"   -> <<2000, 100000>>
          [] v = "UZSN"   -> <<2000, 100000>>
          [] v = "INFILT" -> <<100, 200000>>
          [] v = "INTFW"  -> <<100, 100000>>
          [] v = "AGWRC"  -> <<5000, 20000>>]

\* a dictionary without the key k
Without(d, k) == [v \in DOMAIN d \ {k} |-> d[v]]

\* get_default, lines 351-358: the variables that have a default
HasDefault(v) ==
    v \in {"LZSN", "UZSN", "LZETP", "INFILT", "INTFW", "IRC", "AGWRC", "DEEPFR"}

\* check_variables, line 371: the lookup succeeds
HasRange(v) == v \in DOMAIN parameter_ranges

\* p * self.get_default(v) for the scale p = h/2
ScaledStep(h, v) == (h * get_default(v)) \div 2

\* round(x, 3): the multiples of 0.001 nearest to x.  A decimal tie (x ends in
\* ...5e-4) is decided by the binary value of the float, which lies on either
\* side of the tie: both neighbours are possible results.
Round3(x) ==
    LET lo == (x \div 10) * 10
        r  == x % 10
    IN  IF r = 0 THEN {x}
        ELSE IF r < 5 THEN {lo}
        ELSE IF r > 5 THEN {lo + 10}
        ELSE {lo, lo + 10}

\* a variant that leaves the sign as it is
KeepSign(ps) == ps

\* optimize, lines 421 and 440
Negate(ps) == [i \in 1..Len(ps) |-> 0 - ps[i]]

\* a variant that aliases the live vector instead of copying it (line 295
\* without the slice): every perturbation accumulates in the one list
BuildSimulationsAliased(vs, vals, ps) ==
    LET all == [j \in 1..Len(vals) |-> vals[j] + ps[j]]
    IN  <<[name |-> "baseline", perturbation |-> 0, adjustments |-> all]>> \o
        [i \in 1..Len(vs) |->
            [name |-> vs[i], perturbation |-> ps[i], adjustments |-> all]]

\* perturb, lines 292-304: the baseline and one simulation per variable
BuildSimulations(vs, vals, ps) ==
    <<[name |-> "baseline", perturbation |-> 0, adjustments |-> vals]>> \o
    [i \in 1..Len(vs) |->
        [name |-> vs[i], perturbation |-> ps[i],
         adjustments |-> [vals EXCEPT ![i] = vals[i] + ps[i]]]]

\* a variant with the difference taken the other way round
SensitivitiesReversed(opts) ==
    [i \in 1..(Len(opts) - 1) |-> opts[1] - opts[i + 1]]

\* perturb, line 339
Sensitivities(opts) == [i \in 1..(Len(opts) - 1) |-> opts[i + 1] - opts[1]]

\* a variant that accepts every change of the objective, whatever its sign
AcceptsAnyChange(s) == s # 0

\* optimize, lines 408 / 429: the acceptance test
Accepts(s) == s > 0

Accepted(sens) == { i \in 1..Len(sens) : Accepts(sens[i]) }

\* optimize, lines 406-411 / 427-432: the possible vectors after the update loop
Updated(vals, ps, sens) ==
    { w \in [1..Len(vals) -> UNION { Round3(vals[i] + ps[i]) \cup {vals[i]}
                                      : i \in 1..Len(vals) }] :
        \A i \in 1..Len(vals) :
            w[i] \in (IF Accepts(sens[i]) THEN Round3(vals[i] + ps[i])
                                          ELSE {vals[i]}) }

\* a variant without the upper bound (lines 378-382 missing)
ClampBelowOnly(v, x) ==
    LET mi == parameter_ranges[v][1]
    IN  IF x < mi THEN mi ELSE x

\* a variant that sets every value out of range to the minimum (line 382
\* with mi for ma)
ClampToMin(v, x) ==
    LET mi == parameter_ranges[v][1]
        ma == parameter_ranges[v][2]
    IN  IF x > ma \/ x < mi THEN mi ELSE x

\* check_variables, lines 373-382, for one value
Clamp(v, x) ==
    LET mi == parameter_ranges[v][1]
        ma == parameter_ranges[v][2]
    IN  IF x > ma THEN ma ELSE IF x < mi THEN mi ELSE x

\* check_variables: the vector afterwards
check_variables(vs, vals) == [i \in 1..Len(vals) |-> Clamp(vs[i], vals[i])]

\* check_variables: the number of warnings it prints
ClampWarnings(vs, vals) ==
    Cardinality({ i \in 1..Len(vals) : vals[i] < parameter_ranges[vs[i]][1] }) +
    Cardinality({ i \in 1..Len(vals) : vals[i] > parameter_ranges[vs[i]][2] })

\* check_variables, line 371: the first variable whose lookup fails
FirstWithoutRange(vs) ==
    CHOOSE k \in 1..Len(vs) :
        /\ ~HasRange(vs[k])
        /\ \A j \in 1..(k - 1) : HasRange(vs[j])

InRange(vs, vals) ==
    \A i \in 1..Len(vals) :
        HasRange(vs[i]) =>
            /\ parameter_ranges[vs[i]][1] <= vals[i]
            /\ vals[i] <= parameter_ranges[vs[i]][2]

\* a variant that also repeats the pair when the objective is merely equal
ImprovedOrEqual(cur, val) == cur <= val

\* optimize, line 391: the loop condition
Improved(cur, val) == cur < val

\* perturb, lines 308-309
PoolSize == IF nprocessors = 0 THEN CpuCount ELSE nprocessors

\* a variant that lists the results in the order in which they arrived
GatherAsArrived(arr) == [i \in 1..Len(arr) |-> i]

\* Pool.map_async(...).get(): the result list is in the order of the requests,
\* whatever the order in which the results arrived
Gather(arr) ==
    [i \in 1..Len(arr) |-> (CHOOSE k \in 1..Len(arr) : arr[k].pos = i)]
Results(arr) == [i \in 1..Len(arr) |-> arr[Gather(arr)[i]].obj]

Positions == 1..Len(simulations)
AllDone == \A i \in Positions : status[i] = "done"

-----------------------------------------------------------------------------
(* Initial state: the object is constructed and autocalibrate is called *)

\* hspfmodel.subbasin_timeseries['flowgage'] of the base model, inverted as in
\* lines 482-483: gage -> comid
FlowGages == [g \in {"g1"} |-> "c1"]

\* a constructed object
Object(c, g, r) == [comid |-> c, gageid |-> g, ranges |-> r]

\* the objects and calls of autocalibrate explored: the variables with their
\* starting values.  KVARY is a name that has neither a default nor a range.
Calls ==
    { [names |-> <<"AGWRC">>, start |-> <<10000>>,
       obj |-> Object("c1", "None", DefaultRanges)],
      [names |-> <<"LZETP">>, start |-> <<14500>>,
       obj |-> Object("None", "g1", DefaultRanges)],
      [names |-> <<"LZETP", "DEEPFR">>, start |-> <<13900, 0>>,
       obj |-> Object("c1", "None", DefaultRanges)],
      [names |-> <<"KVARY">>, start |-> <<10000>>,
       obj |-> Object("c1", "None", DefaultRanges)],
      [names |-> <<"AGWRC">>, start |-> <<10000>>,
       obj |-> Object("c1", "None", Without(DefaultRanges, "AGWRC"))],
      [names |-> <<"LZETP", "AGWRC">>, start |-> <<14500, 10000>>,
       obj |-> Object("c1", "None", Without(DefaultRanges, "AGWRC"))],
      [names |-> <<"AGWRC">>, start |-> <<10000>>,
       obj |-> Object("None", "None", DefaultRanges)],
      [names |-> <<"AGWRC">>, start |-> <<10000>>,
       obj |-> Object("None", "g9", DefaultRanges)] }

\* the perturbation schedules explored (2*scale)
Schedules == { <<>>, <<1, 1>>, <<4, 2>> }

\* the locals of optimize and perturb, and the world, before anything ran
LoopIdle ==
    /\ value = 0
    /\ perturbations = <<>>
    /\ scaleIdx = 0
    /\ current = 0
    /\ sign = "pos"
    /\ simulations = <<>>
    /\ status = <<>>
    /\ optimizations = <<>>
    /\ arrived = <<>>
    /\ sensitivities = <<>>
    /\ memo = {}
    /\ reported = <<>>
    /\ warnings = 0
    /\ failure = "none"
    /\ finalModel = [runs |-> 0, adjustments |-> <<>>, ranWith |-> <<>>,
                     saved |-> FALSE]

\* the history before anything ran
NoHistory ==
    [batches |-> 0,        \* batches built
        returns |-> 0,        \* batches whose perturb call returned
        pairs |-> 0,          \* round pairs completed in the run
        scalePairs |-> 0,     \* round pairs completed in this optimize
        failures |-> 0,       \* batches that ended in an exception
        partial |-> 0,        \* results that had arrived at a failure
        hung |-> FALSE,       \* a simulation was outstanding at a failure
        built |-> [values |-> <<>>, value |-> 0],
                              \* live vector and best when the batch was built
        negBase |-> <<>>,     \* baseline vector of the last negative batch
        before |-> 0,         \* best objective when the pair began
        prevBefore |-> 0,     \* the same for the pair before
        accPos |-> 0,         \* updates accepted by the last positive round
        accNeg |-> 0,         \* updates accepted by the last negative round
        clamped |-> FALSE,    \* the last check_variables changed a value
        clean |-> FALSE,      \* the last round accepted at most one update,
                              \* which rounding and clamping left as tried
        prevBase |-> 0,       \* baseline recorded by the batch before
        ret |-> [values |-> <<>>, value |-> 0, quiet |-> FALSE],
                              \* vector and best when optimize last returned
        scales |-> <<>>,      \* the scales optimize was called with
        rounds |-> <<>>,      \* signs of the batches built in this optimize
        upd |-> [old |-> <<>>, pert |-> <<>>, sens |-> <<>>,
                 new |-> <<>>, base |-> 0],
                              \* the last update loop: the vector before,
                              \* the perturbations and sensitivities used,
                              \* the vector after, the best objective
        chk |-> [old |-> <<>>, diag |-> 0, calls |-> 0],
                              \* the last call of check_variables on its own:
                              \* the vector given, the warnings it printed
        given |-> [sflows |-> <<>>, oflows |-> <<>>],
                              \* the flows run got from the postprocessor
        kept |-> [s |-> <<>>, o |-> <<>>]]
                              \* the times of the simulated and of the observed
                              \* flows that run kept, position by position

\* the part of the state that run works on, while run is not being looked at
RunIdle ==
    /\ stimes = <<>>
    /\ sflows = <<>>
    /\ otimes = <<>>
    /\ oflows = <<>>
    /\ score = [kind |-> "none", num |-> 0, den |-> 1]

Init ==
    /\ \E c \in Calls :
          /\ argVariables = c.names
          /\ argValues = c.start
          /\ comid = c.obj.comid
          /\ gageid = c.obj.gageid
          /\ parameter_ranges = c.obj.ranges
    /\ optimization = "unset"
    /\ RunIdle
    /\ argSchedule \in Schedules
    /\ parallel \in BOOLEAN
    /\ nprocessors \in {0, 1}
    /\ (~parallel => nprocessors = 0)
    /\ variables = <<>>
    /\ values = <<>>
    /\ pc = "start"
    /\ LoopIdle
    /\ hist = NoHistory

-----------------------------------------------------------------------------
(* The simulation engine: a deterministic black box.  The objective of a     *)
(* vector is chosen when the vector is first run and is the same ever after. *)

Known(a) == \E m \in memo : m.vec = a
Objective(a) == (CHOOSE m \in memo : m.vec = a).obj

\* a variant in which a run depends on more than the vector it is given (the
\* model copy of line 261 shared between runs)
OutcomesUnrepeatable(a) == ObjVals

\* simulate, lines 250-271: the objective of the base model adjusted by a
Outcomes(a) == IF Known(a) THEN {Objective(a)} ELSE ObjVals
Remember(a, o) == memo \cup {[vec |-> a, obj |-> o]}

FirstPending == CHOOSE i \in Positions :
                    /\ status[i] = "pending"
                    /\ \A j \in Positions : status[j] = "pending" => i <= j

-----------------------------------------------------------------------------
(* autocalibrate *)

\* lines 472-502 with the starting vector given: the comid of the calibration
\* gage is found, or the call ends in an exception (KeyError for a gage the
\* model does not have, the RuntimeError of a bare raise without a gage);
\* then the fields are set from the arguments
AutocalibrateWith(start) ==
    /\ pc = "start"
    /\ IF comid = "None" /\ gageid # "None" /\ gageid \notin DOMAIN FlowGages
       THEN /\ pc' = "raised"
            /\ failure' = "KeyError"
            /\ UNCHANGED <<comid, optimization, variables, values, value>>
       ELSE IF comid = "None" /\ gageid = "None"
       THEN /\ pc' = "raised"
            /\ failure' = "RuntimeError"
            /\ UNCHANGED <<comid, optimization, variables, values, value>>
       ELSE /\ comid' = IF comid = "None" THEN FlowGages[gageid] ELSE comid
            /\ variables' = argVariables
            /\ values' = start
            /\ optimization' = "Nash-Sutcliffe Efficiency"
            /\ value' = Sentinel
            /\ pc' = "for"
            /\ UNCHANGED failure
    /\ UNCHANGED <<ctorVars, runVars,
                   argVariables, argValues, argSchedule, parallel, nprocessors,
                   perturbations, scaleIdx, current, sign, simulations, status,
                   arrived, optimizations, sensitivities, memo, reported,
                   warnings, finalModel, hist>>

\* a variant that starts every variable at the default multiplier 1.0
AutocalibrateFromDefaults ==
    AutocalibrateWith([i \in 1..Len(argVariables) |-> 10000])

\* lines 472-502
Autocalibrate == AutocalibrateWith(argValues)

\* lines 507-510 and 389 with the vector optimize starts from given: the next
\* scale of the schedule enters optimize, or the schedule is exhausted
EnterScale(vec) ==
    /\ pc = "for"
    /\ IF /\ scaleIdx < Len(argSchedule)
          /\ \E i \in 1..Len(argVariables) : ~HasDefault(argVariables[i])
       THEN \* get_default, lines 359-361
            /\ pc' = "raised"
            /\ failure' = "RuntimeError"
            /\ UNCHANGED <<perturbations, current, scaleIdx, hist, values>>
       ELSE IF scaleIdx < Len(argSchedule)
       THEN /\ perturbations' =
                  [i \in 1..Len(variables) |->
                      ScaledStep(argSchedule[scaleIdx + 1], variables[i])]
            /\ current' = value - 1
            /\ scaleIdx' = scaleIdx + 1
            /\ pc' = "while"
            /\ values' = vec
            /\ hist' = [hist EXCEPT !.scalePairs = 0,
                                    !.rounds = <<>>,
                                    !.scales = Append(@, argSchedule[scaleIdx + 1])]
            /\ UNCHANGED failure
       ELSE /\ pc' = "final"
            /\ UNCHANGED <<perturbations, current, scaleIdx, hist, failure,
                           values>>
    /\ UNCHANGED <<ctorVars, comid, runVars, optimization,
                   argVariables, argValues, argSchedule, parallel, nprocessors,
                   variables, value, sign, simulations, status,
                   arrived, optimizations, sensitivities, memo, reported,
                   warnings, finalModel>>

\* a variant in which every scale starts again from the caller's vector
NextScaleFromStart == EnterScale(argValues)

\* lines 507-510: optimize goes on from the live vector
NextScale == EnterScale(values)

\* lines 391-395: the loop test of optimize
LoopTest ==
    /\ pc = "while"
    /\ IF Improved(current, value)
       THEN /\ current' = value
            /\ sign' = "pos"
            /\ pc' = "perturb"
            /\ hist' = [hist EXCEPT !.before = value, !.prevBefore = hist.before]
       ELSE /\ pc' = "for"
            /\ hist' = [hist EXCEPT !.ret =
                          [values |-> values, value |-> value,
                           quiet |-> /\ hist.accPos = 0
                                     /\ hist.accNeg = 0
                                     /\ ~hist.clamped]]
            /\ UNCHANGED <<current, sign>>
    /\ UNCHANGED <<ctorVars, comid, runVars, optimization,
                   argVariables, argValues, argSchedule, parallel, nprocessors,
                   variables, values, value, perturbations, scaleIdx,
                   simulations, status, arrived, optimizations,
                   sensitivities, memo, reported, warnings, failure,
                   finalModel>>

\* perturb, lines 290-304: the batch is built from the live vector (the run
\* is followed for n batches)
PerturbBuildWithin(n) ==
    /\ pc = "perturb"
    /\ hist.batches < n
    /\ simulations' = BuildSimulations(variables, values, perturbations)
    /\ status' = [i \in 1..(Len(variables) + 1) |-> "pending"]
    /\ arrived' = <<>>
    /\ pc' = "dispatch"
    /\ hist' = [hist EXCEPT !.batches = @ + 1,
                            !.rounds = Append(@, sign),
                            !.built = [values |-> values, value |-> value],
                            !.negBase = IF sign = "neg" THEN values ELSE @]
    /\ UNCHANGED <<ctorVars, comid, runVars, optimization,
                   argVariables, argValues, argSchedule, parallel, nprocessors,
                   variables, values, value, perturbations, scaleIdx, current,
                   sign, optimizations, sensitivities, memo, reported,
                   warnings, failure, finalModel>>

PerturbBuild == PerturbBuildWithin(MaxBatches)

\* perturb, line 330: the next simulation of the list comprehension returns,
\* raises (the exception leaves perturb, optimize and autocalibrate), or never
\* returns
SerialSimulate ==
    /\ pc = "dispatch"
    /\ ~parallel
    /\ \E i \in Positions : status[i] = "pending"
    /\ \A i \in Positions : status[i] # "hung"
    /\ LET k == FirstPending
           a == simulations[k].adjustments
       IN  \/ \E o \in Outcomes(a) :
                 /\ status' = [status EXCEPT ![k] = "done"]
                 /\ arrived' = Append(arrived, [pos |-> k, obj |-> o])
                 /\ memo' = Remember(a, o)
                 /\ UNCHANGED <<pc, failure>>
                 /\ UNCHANGED <<simulations, hist>>
           \/ /\ pc' = "failed"
              /\ failure' = "SimulationError"
              /\ simulations' = <<>>
              /\ status' = <<>>
              /\ arrived' = <<>>
              /\ hist' = [hist EXCEPT !.failures = @ + 1,
                                      !.partial = Len(arrived)]
              /\ UNCHANGED memo
           \/ /\ status' = [status EXCEPT ![k] = "hung"]
              /\ UNCHANGED <<pc, failure, simulations, arrived, memo, hist>>
    /\ UNCHANGED <<ctorVars, comid, runVars, optimization,
                   argVariables, argValues, argSchedule, parallel, nprocessors,
                   variables, values, value, perturbations, scaleIdx, current,
                   sign, optimizations, sensitivities, reported, warnings,
                   finalModel>>

\* a variant whose handler keeps what had arrived: the baseline's objective
\* becomes the current best
ParallelFailureSalvaging ==
    /\ pc' = "failed"
    /\ failure' = "RuntimeError"
    /\ reported' = Append(reported, values)
    /\ value' = IF \E k \in 1..Len(arrived) : arrived[k].pos = 1
                THEN (CHOOSE r \in { arrived[k] : k \in 1..Len(arrived) } :
                          r.pos = 1).obj
                ELSE value
    /\ simulations' = <<>>
    /\ status' = <<>>
    /\ arrived' = <<>>
    /\ hist' = [hist EXCEPT !.failures = @ + 1,
                            !.partial = Len(arrived),
                            !.hung = \E i \in Positions : status[i] = "hung"]
    /\ UNCHANGED <<ctorVars, comid, runVars, optimization,
                   argVariables, argValues, argSchedule, parallel, nprocessors,
                   variables, values, perturbations, scaleIdx, current,
                   sign, optimizations, sensitivities, memo, warnings,
                   finalModel>>

\* a variant whose handler prints the vector and, instead of raising, runs the
\* batch again
ParallelFailureRetrying ==
    /\ pc' = "perturb"
    /\ failure' = "none"
    /\ reported' = Append(reported, values)
    /\ simulations' = <<>>
    /\ status' = <<>>
    /\ arrived' = <<>>
    /\ hist' = [hist EXCEPT !.failures = @ + 1,
                            !.partial = Len(arrived),
                            !.hung = \E i \in Positions : status[i] = "hung"]
    /\ UNCHANGED <<ctorVars, comid, runVars, optimization,
                   argVariables, argValues, argSchedule, parallel, nprocessors,
                   variables, values, value, perturbations, scaleIdx, current,
                   sign, optimizations, sensitivities, memo, warnings,
                   finalModel>>

\* lines 319-324: the handler of the parallel branch prints the live vector and
\* raises RuntimeError; leaving the with block ends the pool
ParallelFailure ==
    /\ pc' = "failed"
    /\ failure' = "RuntimeError"
    /\ reported' = Append(reported, values)
    /\ simulations' = <<>>
    /\ status' = <<>>
    /\ arrived' = <<>>
    /\ hist' = [hist EXCEPT !.failures = @ + 1,
                            !.partial = Len(arrived),
                            !.hung = \E i \in Positions : status[i] = "hung"]
    /\ UNCHANGED <<ctorVars, comid, runVars, optimization,
                   argVariables, argValues, argSchedule, parallel, nprocessors,
                   variables, values, value, perturbations, scaleIdx, current,
                   sign, optimizations, sensitivities, memo, warnings,
                   finalModel>>

\* lines 315-316 and 250-271: the pool runs the requests in queue order on its
\* workers, so a request is running when fewer than PoolSize unfinished
\* requests precede it
Running(i) ==
    /\ status[i] = "pending"
    /\ Cardinality({ j \in 1..(i - 1) : status[j] \in {"pending", "hung"} })
          < PoolSize

\* a running simulation returns (its result is stored at the position of its
\* request) or does not return before the timeout
WorkerFinish(i) ==
    /\ pc = "dispatch"
    /\ parallel
    /\ Running(i)
    /\ LET a == simulations[i].adjustments
       IN  \/ \E o \in Outcomes(a) :
                 /\ status' = [status EXCEPT ![i] = "done"]
                 /\ arrived' = Append(arrived, [pos |-> i, obj |-> o])
                 /\ memo' = Remember(a, o)
           \/ /\ status' = [status EXCEPT ![i] = "hung"]
              /\ UNCHANGED <<arrived, memo>>
    /\ UNCHANGED <<ctorVars, comid, runVars, optimization,
                   argVariables, argValues, argSchedule, parallel, nprocessors,
                   variables, values, value, perturbations, pc, scaleIdx,
                   current, sign, simulations, optimizations, sensitivities,
                   reported, warnings, failure, finalModel, hist>>

\* a running simulation raises: results.get (line 317) re-raises its exception
\* into the handler
WorkerRaised(i) ==
    /\ pc = "dispatch"
    /\ parallel
    /\ Running(i)
    /\ ParallelFailure

\* a variant that waits without a timeout (results.get())
TimeoutNever ==
    /\ pc = "dispatch"
    /\ parallel
    /\ FALSE
    /\ ParallelFailure

\* line 317: results.get(timeout = timeout) runs out of time: some simulation
\* did not return in time
Timeout ==
    /\ pc = "dispatch"
    /\ parallel
    /\ \E i \in Positions : status[i] = "hung"
    /\ ParallelFailure

\* perturb, lines 337-345: every simulation returned
PerturbReturn ==
    /\ pc = "dispatch"
    /\ AllDone
    /\ LET opts == IF parallel THEN Results(arrived)
                               ELSE [k \in 1..Len(arrived) |-> arrived[k].obj]
       IN  /\ optimizations' = opts
           /\ sensitivities' = Sensitivities(opts)
           /\ value' = opts[1]
    /\ pc' = "update"
    /\ hist' = [hist EXCEPT !.returns = @ + 1, !.prevBase = value]
    /\ UNCHANGED <<ctorVars, comid, runVars, optimization,
                   argVariables, argValues, argSchedule, parallel, nprocessors,
                   variables, values, perturbations, scaleIdx, current, sign,
                   simulations, status, arrived, memo, reported, warnings,
                   failure, finalModel>>

\* optimize, lines 406-421 after the positive batch, lines 427-444 after the
\* negative one
Update ==
    /\ pc = "update"
    /\ \E w \in Updated(values, perturbations, sensitivities) :
          LET acc   == Cardinality(Accepted(sensitivities))
              exact == \A i \in Accepted(sensitivities) :
                           w[i] = values[i] + perturbations[i]
              c     == check_variables(variables, w)
              u     == [old |-> values, pert |-> perturbations,
                        sens |-> sensitivities, new |-> w, base |-> value]
          IN  IF sign = "pos"
              THEN /\ values' = w
                   /\ sign' = "neg"
                   /\ pc' = "perturb"
                   /\ hist' = [hist EXCEPT !.accPos = acc,
                                           !.upd = u,
                                           !.clean = (acc <= 1 /\ exact)]
                   /\ UNCHANGED <<warnings, failure>>
              ELSE IF \E i \in 1..Len(variables) : ~HasRange(variables[i])
              THEN \* line 371 raises KeyError at the first variable without
                   \* a range; the variables before it have been checked
                   LET k == FirstWithoutRange(variables)
                       h == SubSeq(variables, 1, k - 1)
                   IN  /\ values' = check_variables(h, SubSeq(w, 1, k - 1))
                                        \o SubSeq(w, k, Len(w))
                       /\ warnings' = warnings
                                        + ClampWarnings(h, SubSeq(w, 1, k - 1))
                       /\ pc' = "raised"
                       /\ failure' = "KeyError"
                       /\ hist' = [hist EXCEPT !.accNeg = acc, !.upd = u]
                       /\ UNCHANGED sign
              ELSE /\ UNCHANGED failure
                   /\ values' = c
                   /\ warnings' = warnings + ClampWarnings(variables, w)
                   /\ pc' = "while"
                   /\ hist' = [hist EXCEPT !.accNeg = acc,
                                           !.upd = u,
                                           !.clamped = (c # w),
                                           !.clean = (acc <= 1 /\ exact /\ c = w),
                                           !.pairs = @ + 1,
                                           !.scalePairs = @ + 1]
                   /\ UNCHANGED sign
    /\ perturbations' = Negate(perturbations)
    /\ simulations' = <<>>
    /\ status' = <<>>
    /\ arrived' = <<>>
    /\ optimizations' = <<>>
    /\ UNCHANGED <<ctorVars, comid, runVars, optimization,
                   argVariables, argValues, argSchedule, parallel, nprocessors,
                   variables, value, scaleIdx, current, sensitivities, memo,
                   reported, finalModel>>

\* autocalibrate, lines 514-519: a copy of the base model is run
FinalRun ==
    /\ pc = "final"
    /\ finalModel' = [finalModel EXCEPT !.runs = @ + 1,
                                        !.ranWith = finalModel.adjustments]
    /\ \/ pc' = "ran" /\ UNCHANGED failure
       \/ pc' = "finalFailed" /\ failure' = "SimulationError"
    /\ UNCHANGED <<ctorVars, comid, runVars, optimization,
                   argVariables, argValues, argSchedule, parallel, nprocessors,
                   variables, values, value, perturbations, scaleIdx, current,
                   sign, simulations, status, arrived, optimizations,
                   sensitivities, memo, reported, warnings, hist>>

\* autocalibrate, lines 523-528: the adjustments are applied and the model is
\* written to the output file
FinalSave ==
    /\ pc = "ran"
    /\ finalModel' = [finalModel EXCEPT !.adjustments = values, !.saved = TRUE]
    /\ pc' = "done"
    /\ UNCHANGED <<ctorVars, comid, runVars, optimization,
                   argVariables, argValues, argSchedule, parallel, nprocessors,
                   variables, values, value, perturbations, scaleIdx, current,
                   sign, simulations, status, arrived, optimizations,
                   sensitivities, memo, reported, warnings, failure, hist>>

Next ==
    \/ Autocalibrate
    \/ NextScale
    \/ LoopTest
    \/ PerturbBuild
    \/ SerialSimulate
    \/ \E i \in Positions : WorkerFinish(i)
    \/ Timeout
    \/ \E i \in Positions : WorkerRaised(i)
    \/ PerturbReturn
    \/ Update
    \/ FinalRun
    \/ FinalSave

Spec == Init /\ [][Next]_vars

\* the runs with one calibration variable, with the progress the interpreter,
\* the pool's workers and the timeout of results.get guarantee
FairInit == Init /\ Len(argVariables) = 1
FairSpec == FairInit /\ [][Next]_vars /\ WF_vars(Next)

-----------------------------------------------------------------------------
(* The runs of one call followed to their end *)

\* the configuration is invalid: a calibration variable has no default step or
\* no configured range, or neither comid nor gageid is given
InvalidConfiguration ==
    \/ \E i \in 1..Len(argVariables) :
           ~HasDefault(argVariables[i]) \/ ~HasRange(argVariables[i])
    \/ (comid = "None" /\ gageid = "None")

\* a valid call with one variable and the schedule [2, 1]
TermInit ==
    /\ Init
    /\ argVariables = <<"AGWRC">>
    /\ ~InvalidConfiguration
    /\ argSchedule = <<4, 2>>

\* the runs are followed for TermBatches batches, which none of them needs: a
\* scale has at most Cardinality(ObjVals) round pairs, since each further pair
\* takes a higher objective
TermBatches == 12

TermPerturbBuild == PerturbBuildWithin(TermBatches)

TermNext ==
    \/ Autocalibrate
    \/ NextScale
    \/ LoopTest
    \/ TermPerturbBuild
    \/ SerialSimulate
    \/ \E i \in Positions : WorkerFinish(i)
    \/ Timeout
    \/ \E i \in Positions : WorkerRaised(i)
    \/ PerturbReturn
    \/ Update
    \/ FinalRun
    \/ FinalSave

\* with the progress of the interpreter, of the pool's workers and of the
\* timeout of results.get
TermSpec == TermInit /\ [][TermNext]_vars /\ WF_vars(TermNext)

-----------------------------------------------------------------------------
(* check_variables on its own: every vector against every set of ranges *)

\* the values and range bounds tried are 0..MaxClampValue
MaxClampValue == 4

ClampNames == { <<"LZETP">>, <<"LZETP", "DEEPFR">> }

\* the ranges tried: min <= max, with values below and above them
ClampRanges ==
    { r \in (1..(MaxClampValue - 1)) \X (1..(MaxClampValue - 1)) : r[1] <= r[2] }

\* an object with its variables, values and ranges set
ClampInit ==
    /\ variables \in ClampNames
    /\ values \in [1..Len(variables) -> 0..MaxClampValue]
    /\ parameter_ranges \in
          [{ variables[i] : i \in 1..Len(variables) } -> ClampRanges]
    /\ comid = "c1"
    /\ gageid = "None"
    /\ optimization = "unset"
    /\ RunIdle
    /\ argVariables = variables
    /\ argValues = values
    /\ argSchedule = <<>>
    /\ parallel = FALSE
    /\ nprocessors = 0
    /\ pc = "check"
    /\ LoopIdle
    /\ hist = NoHistory

\* lines 363-382: check_variables is called, and called again on its result
CheckVariables ==
    /\ pc \in {"check", "checked"}
    /\ IF \E i \in 1..Len(variables) : ~HasRange(variables[i])
       THEN LET k == FirstWithoutRange(variables)
                h == SubSeq(variables, 1, k - 1)
            IN  /\ values' = check_variables(h, SubSeq(values, 1, k - 1))
                                 \o SubSeq(values, k, Len(values))
                /\ warnings' = warnings
                                 + ClampWarnings(h, SubSeq(values, 1, k - 1))
                /\ pc' = "raised"
                /\ failure' = "KeyError"
                /\ hist' = [hist EXCEPT !.chk =
                              [old |-> values, calls |-> @.calls + 1,
                               diag |-> ClampWarnings(h, SubSeq(values, 1, k - 1))]]
       ELSE /\ values' = check_variables(variables, values)
            /\ warnings' = warnings + ClampWarnings(variables, values)
            /\ pc' = IF pc = "check" THEN "checked" ELSE "rechecked"
            /\ hist' = [hist EXCEPT !.chk =
                          [old |-> values, calls |-> @.calls + 1,
                           diag |-> ClampWarnings(variables, values)]]
            /\ UNCHANGED failure
    /\ UNCHANGED <<ctorVars, comid, runVars, optimization,
                   argVariables, argValues, argSchedule, parallel, nprocessors,
                   variables, value, perturbations, scaleIdx, current, sign,
                   simulations, status, arrived, optimizations, sensitivities,
                   memo, reported, finalModel>>

ClampNext == CheckVariables

ClampSpec == ClampInit /\ [][ClampNext]_vars

-----------------------------------------------------------------------------
(* run on its own, from the series of the postprocessor to the objective *)

\* the days of the calibration period are 1..MaxDays
MaxDays == 2

\* the daily flows tried are 0..MaxFlow
MaxFlow == 3

\* a missing value (None) of a series
None == 0 - 1

\* the elements of S in increasing order
SortedSeq(S) ==
    CHOOSE q \in [1..Cardinality(S) -> S] :
        \A i, j \in 1..Cardinality(S) : i < j => q[i] < q[j]

\* the times a daily series can have: some days of the period, in order
TimeLists == { SortedSeq(S) : S \in (SUBSET (1..MaxDays)) \ {{}} }

\* lines 200-207: the postprocessor has given the simulated and the observed
\* daily flows, each with its times; a simulated day has a flow, an observed
\* day can have None
RunInit ==
    /\ stimes \in TimeLists
    /\ sflows \in [1..Len(stimes) -> 0..MaxFlow]
    /\ otimes \in TimeLists
    /\ oflows \in [1..Len(otimes) -> (0..MaxFlow) \cup {None}]
    /\ optimization \in {"Nash-Sutcliffe Efficiency", "Nash-Sutcliffe Product"}
    /\ score = [kind |-> "none", num |-> 0, den |-> 1]
    /\ parameter_ranges = DefaultRanges
    /\ comid = "c1"
    /\ gageid = "None"
    /\ argVariables = <<>>
    /\ argValues = <<>>
    /\ argSchedule = <<>>
    /\ parallel = FALSE
    /\ nprocessors = 0
    /\ variables = <<>>
    /\ values = <<>>
    /\ pc = "run"
    /\ LoopIdle
    /\ hist = [NoHistory EXCEPT !.given = [sflows |-> sflows, oflows |-> oflows]]

\* zip(a, b)
Zip(a, b) ==
    [k \in 1..(IF Len(a) < Len(b) THEN Len(a) ELSE Len(b)) |-> <<a[k], b[k]>>]

\* t in q
Contains(q, t) == \E i \in 1..Len(q) : q[i] = t

\* q.index(t)
Index(q, t) ==
    CHOOSE i \in 1..Len(q) : q[i] = t /\ \A j \in 1..(i - 1) : q[j] # t

\* lines 216-217: the pairs (t, f) the comprehension for sflows keeps
KeptForSim ==
    SelectSeq(Zip(otimes, oflows),
              LAMBDA p : Contains(stimes, p[1]) /\ p[2] # None)

\* lines 219-220: the pairs (t, f) the comprehension for oflows keeps
KeptForObs == SelectSeq(Zip(otimes, oflows), LAMBDA p : p[2] # None)

\* lines 215-220: the two series are filtered
RunAlign ==
    /\ pc = "run"
    /\ sflows' = [k \in 1..Len(KeptForSim) |->
                     sflows[Index(stimes, KeptForSim[k][1])]]
    /\ oflows' = [k \in 1..Len(KeptForObs) |->
                     oflows[Index(otimes, KeptForObs[k][1])]]
    /\ pc' = "aligned"
    /\ hist' = [hist EXCEPT !.kept =
                  [s |-> [k \in 1..Len(KeptForSim) |-> KeptForSim[k][1]],
                   o |-> [k \in 1..Len(KeptForObs) |-> KeptForObs[k][1]]]]
    /\ UNCHANGED <<ctorVars, comid, stimes, otimes, score, optimization,
                   argVariables, argValues, argSchedule, parallel, nprocessors,
                   variables, values, value, perturbations, scaleIdx, current,
                   sign, simulations, status, arrived, optimizations,
                   sensitivities, memo, reported, warnings, failure,
                   finalModel>>

\* numpy broadcasting of two one-dimensional arrays: the lengths are equal or
\* one of them is 1
Broadcastable(a, b) == Len(a) = Len(b) \/ Len(a) = 1 \/ Len(b) = 1
BroadcastLen(a, b) ==
    IF Len(a) = Len(b) THEN Len(a) ELSE IF Len(a) = 1 THEN Len(b) ELSE Len(a)
At(q, k) == IF Len(q) = 1 THEN q[1] ELSE q[k]

RECURSIVE SumTo(_, _)
\* f[1] + ... + f[n]
SumTo(f, n) == IF n = 0 THEN 0 ELSE f[n] + SumTo(f, n - 1)

\* n^2 times sum((s - o)**2), n the number of observed flows
SquaredErrors(s, o) ==
    LET l == BroadcastLen(s, o)
        d == [k \in 1..l |-> (At(s, k) - At(o, k)) * (At(s, k) - At(o, k))]
    IN  Len(o) * Len(o) * SumTo(d, l)

\* n^2 times sum((o - mean(o))**2)
SquaredDeviations(o) ==
    LET n == Len(o)
        t == SumTo(o, n)
        d == [k \in 1..n |-> (n * o[k] - t) * (n * o[k] - t)]
    IN  SumTo(d, n)

\* lines 236-237 / 245-246: 1 - sum((s - o)**2) / sum((o - mean(o))**2).  The
\* subtraction raises for lengths that do not broadcast; the quotient of two
\* empty sums is 0 / 0 between Python integers; a numpy division by zero
\* gives inf or nan with a warning, no exception.
Efficiency(s, o) ==
    IF ~Broadcastable(s, o)
    THEN [kind |-> "ValueError", num |-> 0, den |-> 1]
    ELSE IF Len(o) = 0
    THEN [kind |-> "ZeroDivisionError", num |-> 0, den |-> 1]
    ELSE IF SquaredDeviations(o) = 0
    THEN [kind |-> "nonfinite", num |-> 0, den |-> 1]
    ELSE [kind |-> "number",
          num |-> SquaredDeviations(o) - SquaredErrors(s, o),
          den |-> SquaredDeviations(o)]

\* lines 228-239: numpy.log gives -inf or nan, with a warning and no
\* exception, for a flow that is not positive; -inf and nan make the product
\* inf or nan.  The value of a finite product is not represented (num / den
\* is the daily efficiency of lines 236-237).
Product(s, o) ==
    IF Efficiency(s, o).kind # "number"
    THEN Efficiency(s, o)
    ELSE IF \/ \E k \in 1..Len(s) : s[k] <= 0
            \/ \E k \in 1..Len(o) : o[k] <= 0
    THEN [kind |-> "nonfinite", num |-> 0, den |-> 1]
    ELSE Efficiency(s, o)

\* lines 224-248: the objective is computed and returned, or an exception
\* leaves run
RunScore ==
    /\ pc = "aligned"
    /\ score' = IF optimization = "Nash-Sutcliffe Product"
                THEN Product(sflows, oflows)
                ELSE Efficiency(sflows, oflows)
    /\ pc' = IF score'.kind \in {"number", "nonfinite"} THEN "returned"
                                                         ELSE "runRaised"
    /\ UNCHANGED <<ctorVars, comid, stimes, sflows, otimes, oflows,
                   optimization,
                   argVariables, argValues, argSchedule, parallel, nprocessors,
                   variables, values, value, perturbations, scaleIdx, current,
                   sign, simulations, status, arrived, optimizations,
                   sensitivities, memo, reported, warnings, failure,
                   finalModel, hist>>

RunNext == RunAlign \/ RunScore

RunSpec == RunInit /\ [][RunNext]_vars

-----------------------------------------------------------------------------
(* Properties *)

\* a round starts where its batch is about to be built, and ends where its
\* updates have been applied
RoundStart == pc = "perturb"
RoundEnd == (pc = "perturb" /\ sign = "neg") \/ (pc = "while" /\ hist.pairs > 0)
PairEnd == pc = "while" /\ hist.pairs > 0
LaterPairStart == pc = "perturb" /\ sign = "pos" /\ hist.pairs > 0

\* C1 as stated: at the start and at the end of every round, positive or
\* negative, every value of the live vector is within its configured range.
C1_BoundsEveryRound ==
    (RoundStart \/ RoundEnd) => InRange(variables, values)

\* C1 amended: every value of the live vector is within its configured range
\* at the end of every positive+negative round pair, and so at the start of
\* every positive round but the first of the run.
C1_BoundsAfterEveryPair ==
    (PairEnd \/ LaterPairStart) => InRange(variables, values)

\* a pair has ended in which check_variables clamped a value
C1_ClampedAtPairEnd == PairEnd /\ hist.clamped /\ warnings > 0

\* optimize has just returned for a scale
LeftScale == pc = "for" /\ scaleIdx > 0
\* optimize has just decided to run another pair at the same scale
StayedInScale == pc = "perturb" /\ sign = "pos" /\ hist.scalePairs > 0

\* C2 as stated: optimize leaves a scale only when the last round pair accepted
\* no update in either direction; a pair that accepted an update is followed by
\* another pair at the same scale.
C2_LeavesOnlyWithoutUpdates ==
    LeftScale => (hist.accPos = 0 /\ hist.accNeg = 0)

\* C2 amended: after a round pair optimize leaves the scale exactly when the
\* objective of the pair's negative baseline (the vector left by the positive
\* round) is not greater than the best objective recorded before the pair;
\* when it is greater, another pair is run at the same scale.
C2_LeavesWhenBestNotRaised ==
    /\ LeftScale => Objective(hist.negBase) <= hist.before
    /\ StayedInScale => Objective(hist.negBase) > hist.prevBefore

\* optimize left a scale although the last pair accepted an update, and
\* optimize stayed in a scale
C2_LeftWithUpdate == LeftScale /\ hist.accPos + hist.accNeg > 0

\* one more round pair has run at the scale for which optimize had returned
\* (the schedule repeats the scale)
ExtraPairDone ==
    /\ pc = "while"
    /\ scaleIdx >= 2
    /\ argSchedule[scaleIdx] = argSchedule[scaleIdx - 1]
    /\ hist.scalePairs = 1

Unchanged == values = hist.ret.values /\ value = hist.ret.value

\* C3 as stated: once optimize has returned for a scale, one more round pair
\* at that scale leaves the live vector and the best objective unchanged.
C3_ExtraPairChangesNothing == ExtraPairDone => Unchanged

\* C3 amended: once optimize has returned for a scale after a last pair that
\* accepted no update in either round and clamped no value, one more round
\* pair at that scale leaves the live vector and the best objective unchanged.
C3_ExtraPairAfterQuietPair == (ExtraPairDone /\ hist.ret.quiet) => Unchanged

\* an extra pair has run after a quiet last pair
C3_ExtraPairAfterQuietDone == ExtraPairDone /\ hist.ret.quiet

\* a batch other than the first of the run has just recorded its baseline
LaterBaseline == pc = "update" /\ hist.returns >= 2

HungTrial == pc = "dispatch" /\ \E i \in Positions : status[i] = "hung"
\* the batch ended in a failure and perturb returned nothing for it
BatchFailed == pc = "failed" /\ hist.returns < hist.batches

\* C5 as stated: with parallel set or not, a batch with a simulation that never
\* completes ends in a failure, without results.
C5_HungBatchFails == HungTrial ~> BatchFailed

\* C5 amended: with parallel set, a batch with a simulation that never
\* completes ends, once the timeout elapses, in a RuntimeError without results.
C5_HungParallelBatchFails ==
    (parallel /\ HungTrial) ~> (BatchFailed /\ failure = "RuntimeError")

\* a parallel batch with a simulation that never completes has timed out
C5_TimedOut ==
    parallel /\ BatchFailed /\ failure = "RuntimeError" /\ hist.hung

\* a batch has ended in an exception (a simulation raised, or the batch timed out)
AfterBatchFailure == hist.failures > 0
\* nothing ran after the failed batch: autocalibrate was left by the exception
Fatal ==
    /\ pc = "failed"
    /\ hist.failures = 1
    /\ hist.batches = hist.returns + 1
    /\ finalModel.runs = 0
    /\ ~finalModel.saved

\* C6 as stated: in either dispatch mode, when a batch fails the live vector is
\* reported before the failure propagates, and nothing runs afterwards.
C6_FailureReportedAndFatal ==
    AfterBatchFailure => (reported = <<values>> /\ Fatal)

\* C6 amended: when a batch fails, in either dispatch mode no further batch, no
\* retry, no later scale, no final run and no save follow; the live vector is
\* reported before the failure propagates in parallel mode only.
C6_FailureFatalReportedIfParallel ==
    AfterBatchFailure => /\ Fatal
                         /\ parallel => reported = <<values>>
                         /\ ~parallel => reported = <<>>

\* a parallel batch failed in a negative round, after the positive round had
\* updated the vector
C6_FailedAfterUpdate ==
    AfterBatchFailure /\ parallel /\ sign = "neg" /\ hist.accPos > 0

\* C7: when a batch fails, the live vector and the current best are what they
\* were when the batch was built, whatever had arrived.
C7_NoPartialResults ==
    AfterBatchFailure =>
        (values = hist.built.values /\ value = hist.built.value)

\* a batch failed after results had arrived
C7_FailedWithResults == AfterBatchFailure /\ hist.partial > 0

\* C8: when perturb returns, the result at every position is the objective of
\* the request at that position, and sensitivity i is that of variable i
\* against the baseline.
C8_ResultsInRequestOrder ==
    (pc = "update") =>
        /\ \A i \in Positions :
              optimizations[i] = Objective(simulations[i].adjustments)
        /\ \A i \in 1..Len(variables) :
              sensitivities[i] = Objective(simulations[i + 1].adjustments)
                                   - Objective(simulations[1].adjustments)

\* a parallel batch returned whose results had arrived out of request order
C8_ArrivedOutOfOrder ==
    /\ pc = "update"
    /\ parallel
    /\ \E k \in 1..Len(arrived) :
          /\ arrived[k].pos # k
          /\ arrived[k].obj # arrived[arrived[k].pos].obj

\* C9: after the last scale exactly one final run is made, on the model with
\* the converged vector applied, before the model is saved.
C9_FinalRunOnCalibratedModel ==
    (pc = "done" /\ scaleIdx > 0) =>
        (finalModel.runs = 1 /\ finalModel.ranWith = values)

\* C10 as stated: with an empty schedule no simulation is run and no model
\* file is written.
C10_EmptyScheduleRunsNothing ==
    (argSchedule = <<>>) => (finalModel.runs = 0 /\ ~finalModel.saved)

\* the calibration gage can be found: a comid is given, or a gage of the model
Located == comid # "None" \/ gageid \in DOMAIN FlowGages

\* C10 amended: with an empty schedule, and a calibration gage that can be
\* found, no batch is dispatched and no exception is raised at entry:
\* autocalibrate goes straight to the final run and saves the model with the
\* caller's starting values applied.
C10_EmptyScheduleSavesStart ==
    (argSchedule = <<>> /\ Located) =>
        /\ hist.batches = 0
        /\ pc \in {"start", "for", "final", "ran", "done", "finalFailed"}
        /\ pc = "done" => /\ finalModel.runs = 1
                          /\ finalModel.saved
                          /\ finalModel.adjustments = argValues

\* a call with an empty schedule has saved its model
C10_EmptyScheduleSaved == argSchedule = <<>> /\ pc = "done" /\ finalModel.saved

\* C11: with an invalid configuration no batch is ever dispatched: the call
\* does not fail only after rounds have run.
C11_InvalidConfigurationRunsNoBatch ==
    InvalidConfiguration => hist.batches = 0

\* the perturbations of the scale optimize is in: scale x default step
ScalePerturbations ==
    [i \in 1..Len(variables) |-> ScaledStep(argSchedule[scaleIdx], variables[i])]

\* the first batch of a scale after the first has been built
FirstBatchOfLaterScale ==
    pc = "dispatch" /\ scaleIdx >= 2 /\ Len(hist.rounds) = 1

\* C12: the scales are taken in schedule order, one at a time, and the first
\* batch of every scale after the first is built from the vector the scale
\* before left, with perturbations of the new scale times the default steps.
C12_ScalesInOrderCarryVector ==
    /\ hist.scales = SubSeq(argSchedule, 1, scaleIdx)
    /\ FirstBatchOfLaterScale =>
          /\ simulations[1].adjustments = hist.ret.values
          /\ \A i \in 1..Len(variables) :
                /\ simulations[i + 1].perturbation =
                      (argSchedule[scaleIdx] * get_default(variables[i])) \div 2
                /\ simulations[i + 1].adjustments[i] =
                      hist.ret.values[i] + simulations[i + 1].perturbation

\* a later scale, of another size, starts from a vector that is not the
\* caller's
C12_LaterScaleFromChangedVector ==
    /\ FirstBatchOfLaterScale
    /\ argSchedule[scaleIdx] # argSchedule[scaleIdx - 1]
    /\ hist.ret.values # argValues

\* C13: a batch is the baseline (the live vector, perturbation 0) followed by
\* one simulation per variable, in the order of the variables, that differs
\* from the live vector in its own coordinate only, by its perturbation; the
\* live vector is not changed by building and dispatching the batch.
C13_BatchShape ==
    (pc \in {"dispatch", "update"}) =>
        /\ Len(simulations) = Len(variables) + 1
        /\ simulations[1].name = "baseline"
        /\ simulations[1].perturbation = 0
        /\ simulations[1].adjustments = values
        /\ \A i \in 1..Len(variables) :
              /\ simulations[i + 1].name = variables[i]
              /\ simulations[i + 1].perturbation = perturbations[i]
              /\ \A j \in 1..Len(variables) :
                    simulations[i + 1].adjustments[j] =
                        IF j = i THEN values[j] + perturbations[j]
                                 ELSE values[j]
        /\ values = hist.built.values

\* a negative batch of two variables has run to its end
C13_TwoVariableBatchReturned ==
    pc = "update" /\ Len(variables) = 2 /\ sign = "neg"

\* x rounded to 3 decimals gives y
RoundedTo3(x, y) == y % 10 = 0 /\ x - y <= 5 /\ y - x <= 5

C18_FirstPairNeverEndsFirstScale ==
    (LeftScale /\ scaleIdx = 1) => hist.scalePairs >= 2

\* C20: every scale runs at least one round pair; the rounds of a scale
\* alternate positive, negative, positive, ...; the perturbations are scale x
\* default step throughout a positive round, their negation throughout a
\* negative round, and positive again before the next pair or the next scale.
C20_RoundsAlternate ==
    /\ LeftScale => hist.scalePairs >= 1
    /\ \A k \in 1..Len(hist.rounds) :
          hist.rounds[k] = IF k % 2 = 1 THEN "pos" ELSE "neg"
    /\ (pc \in {"perturb", "dispatch", "update"} /\ sign = "pos") =>
          perturbations = ScalePerturbations
    /\ (pc \in {"perturb", "dispatch", "update"} /\ sign = "neg") =>
          \A i \in 1..Len(variables) :
              perturbations[i] = 0 - ScalePerturbations[i]
    /\ (pc = "while" \/ LeftScale) => perturbations = ScalePerturbations

\* a second round pair of a scale has ended
C20_TwoPairsInScale == pc = "while" /\ hist.scalePairs = 2

\* the variables of the vector given to check_variables that were out of range
OutOfRange ==
    { i \in 1..Len(variables) :
        \/ hist.chk.old[i] < parameter_ranges[variables[i]][1]
        \/ hist.chk.old[i] > parameter_ranges[variables[i]][2] }

CommonTimes ==
    { t \in 1..MaxDays :
        /\ Contains(stimes, t)
        /\ Contains(otimes, t)
        /\ hist.given.oflows[Index(otimes, t)] # None }

\* C16: after the filtering the two series have the same length, position k
\* of both is the same time, and the times kept are those present in both
\* series with a value in both.
C16_SeriesAligned ==
    (pc = "aligned") =>
        /\ Len(sflows) = Len(oflows)
        /\ hist.kept.s = hist.kept.o
        /\ hist.kept.s = SortedSeq(CommonTimes)

\* C17: for the Nash-Sutcliffe product no objective is returned when a flow
\* of the filtered series, here filtered to the same times, is zero or less.
C17_NoScoreForNonPositiveFlow ==
    (/\ pc = "returned"
     /\ optimization = "Nash-Sutcliffe Product"
     /\ hist.kept.s = hist.kept.o) =>
        /\ \A k \in 1..Len(sflows) : sflows[k] > 0
        /\ \A k \in 1..Len(oflows) : oflows[k] > 0

\* the call has ended otherwise than by saving the model: an exception left
\* it, or a simulation of a serial batch never returns
Stopped == failure # "none" \/ HungTrial

\* C19: a run in which every batch completes, and the final run returns, ends
\* every scale's loop after finitely many round pairs and reaches the final
\* run and the save.
C19_Terminates == <>(pc = "done" \/ Stopped)

\* the model was saved after a scale had run three round pairs
C19_SavedAfterThreePairs ==
    pc = "done" /\ finalModel.saved /\ hist.pairs >= 4 /\ hist.scalePairs = 3

\* no run is cut short: the batches followed are more than any run builds
TermBatchesSuffice == (pc = "perturb") => hist.batches < TermBatches
====
